---- MODULE Spec2Model ----
(***************************************************************************)
(* A model of the ContentDB client of minetest_packages: URL construction  *)
(* (api.py, OnlineContent), the two network calls, and the two parsers     *)
(* (api.py Search / SearchItem, package.py Package).                       *)
(*                                                                         *)
(* Python strings are sequences of one-character strings, so that          *)
(* percent-encoding and URL joining are computed character by character.   *)
(* A call is drawn in Init (its arguments from bounded sets) and the       *)
(* action of the called operation applies the code to it.                  *)
(***************************************************************************)
EXTENDS Integers, Sequences, FiniteSets, TLC

VARIABLES
    client,     \* the OnlineContent instance: [base_address |-> string]
    call,       \* the pending call: [op |-> name, ...arguments]
    done,       \* whether the pending call has returned or raised
    url,        \* the URL the call built (make_url, search_url, package_url, search, fetch)
    response,   \* the HTTP response requests.get returned: [status, text], or NoResponse
    outcome,    \* what the call returned or raised: [kind |-> "ok" | exception, ...]
    found       \* what the last find() on the returned Search gave back

vars == <<client, call, done, url, response, outcome, found>>

----------------------------------------------------------------------------
(* Bounds of the model.                                                    *)

\* Total number of characters over all components of one make_url call.
MaxChars == 3
\* Number of components of one make_url call.
MaxComponents == 2
\* Number of required fields of a Package document that are missing or wrong.
MaxDeviations == 1
\* Number of elements of a search response array.
MaxItems == 2

----------------------------------------------------------------------------
(* Strings.                                                                *)

RECURSIVE Flatten(_)
Flatten(ss) == IF Len(ss) = 0 THEN <<>> ELSE Head(ss) \o Flatten(Tail(ss))

\* sep.join(parts)
RECURSIVE Join(_, _)
Join(parts, sep) ==
    IF Len(parts) = 0 THEN <<>>
    ELSE IF Len(parts) = 1 THEN parts[1]
    ELSE parts[1] \o <<sep>> \o Join(Tail(parts), sep)

\* First index >= from of a character of s in the set cs, or Len(s) + 1.
RECURSIVE FindAny(_, _, _)
FindAny(s, cs, from) ==
    IF from > Len(s) THEN Len(s) + 1
    ELSE IF s[from] \in cs THEN from
    ELSE FindAny(s, cs, from + 1)

\* s.split(sep): always at least one piece.
RECURSIVE Split(_, _)
Split(s, sep) ==
    LET i == FindAny(s, {sep}, 1)
    IN  IF i > Len(s) THEN <<s>>
        ELSE <<SubSeq(s, 1, i - 1)>> \o Split(SubSeq(s, i + 1, Len(s)), sep)

DropFirst(s, n) == SubSeq(s, n + 1, Len(s))

StartsWith(s, p) == Len(s) >= Len(p) /\ SubSeq(s, 1, Len(p)) = p

\* str.lstrip(chars)
RECURSIVE LStrip(_, _)
LStrip(s, cs) == IF Len(s) > 0 /\ Head(s) \in cs THEN LStrip(Tail(s), cs) ELSE s

----------------------------------------------------------------------------
(* urllib.parse, as called by OnlineContent.make_url.                      *)

Letters ==
    { "a", "b", "c", "d", "e", "f", "g", "h", "i", "j", "k", "l", "m",
      "n", "o", "p", "q", "r", "s", "t", "u", "v", "w", "x", "y", "z", "W" }

Digits == { "0", "1", "2", "3", "4", "5", "6", "7", "8", "9" }

\* The characters quote() never encodes (urllib.parse._ALWAYS_SAFE).
AlwaysSafe == Letters \cup Digits \cup { "_", ".", "-", "~" }

\* The UTF-8 percent-encoding of the other characters of the model.
PercentCode ==
    [ c \in { " ", "#", "%", "/", ":", "=", "?" } |->
        CASE c = " " -> <<"%", "2", "0">>
          [] c = "#" -> <<"%", "2", "3">>
          [] c = "%" -> <<"%", "2", "5">>
          [] c = "/" -> <<"%", "2", "F">>
          [] c = ":" -> <<"%", "3", "A">>
          [] c = "=" -> <<"%", "3", "D">>
          [] c = "?" -> <<"%", "3", "F">> ]

\* urllib.parse.quote(x, safe): every character outside _ALWAYS_SAFE and
\* safe is replaced by its percent-encoding.
quote_with_safe(x, safe) ==
    Flatten([ i \in 1..Len(x) |->
                IF x[i] \in AlwaysSafe \cup safe THEN <<x[i]>> ELSE PercentCode[x[i]] ])

\* A quote() that also leaves "?" alone.
quote_keeps_question_mark(x) == quote_with_safe(x, { "/", "?" })

\* quote(x) as make_url calls it: the default safe = "/".
quote(x) == quote_with_safe(x, { "/" })

Https == <<"h", "t", "t", "p", "s">>

\* The schemes of the model that urllib.parse lists in uses_relative and
\* in uses_netloc (both lists hold "" and "https", neither holds "x").
UsesRelative == { <<>>, Https }
UsesNetloc == { <<>>, Https }

SchemeChars == Letters \cup Digits \cup { "+", "-", "." }

\* urlsplit(u, scheme): <scheme>://<netloc>/<path>?<query>#<fragment>.
urlsplit(u, scheme) ==
    LET u0 == LStrip(u, { " " })
        i == FindAny(u0, { ":" }, 1)
        hasScheme == /\ 1 < i /\ i <= Len(u0)
                     /\ u0[1] \in Letters
                     /\ \A j \in 1..(i - 1) : u0[j] \in SchemeChars
        u1 == IF hasScheme THEN DropFirst(u0, i) ELSE u0
        hasNetloc == StartsWith(u1, <<"/", "/">>)
        delim == FindAny(u1, { "/", "?", "#" }, 3)
        u2 == IF hasNetloc THEN DropFirst(u1, delim - 1) ELSE u1
        h == FindAny(u2, { "#" }, 1)
        u3 == SubSeq(u2, 1, h - 1)
        q == FindAny(u3, { "?" }, 1)
    IN  [ scheme   |-> IF hasScheme THEN SubSeq(u0, 1, i - 1) ELSE scheme,
          netloc   |-> IF hasNetloc THEN SubSeq(u1, 3, delim - 1) ELSE <<>>,
          path     |-> SubSeq(u3, 1, q - 1),
          query    |-> DropFirst(u3, q),
          fragment |-> DropFirst(u2, h) ]

\* urlunsplit((scheme, netloc, path, query, fragment)).
urlunsplit(p) ==
    LET withNetloc ==
            IF \/ Len(p.netloc) > 0
               \/ /\ Len(p.scheme) > 0
                  /\ p.scheme \in UsesNetloc
                  /\ ~StartsWith(p.path, <<"/", "/">>)
            THEN <<"/", "/">> \o p.netloc
                 \o (IF Len(p.path) > 0 /\ p.path[1] # "/" THEN <<"/">> ELSE <<>>)
                 \o p.path
            ELSE p.path
        withScheme ==
            IF Len(p.scheme) > 0 THEN p.scheme \o <<":">> \o withNetloc ELSE withNetloc
        withQuery ==
            IF Len(p.query) > 0 THEN withScheme \o <<"?">> \o p.query ELSE withScheme
    IN  IF Len(p.fragment) > 0 THEN withQuery \o <<"#">> \o p.fragment ELSE withQuery

\* The loop of urljoin that resolves "." and ".." segments.
RECURSIVE ResolveDots(_, _)
ResolveDots(segments, resolved) ==
    IF Len(segments) = 0 THEN resolved
    ELSE LET seg == Head(segments)
         IN  ResolveDots(Tail(segments),
                 IF seg = <<".", ".">>
                 THEN IF Len(resolved) = 0 THEN resolved
                      ELSE SubSeq(resolved, 1, Len(resolved) - 1)
                 ELSE IF seg = <<".">> THEN resolved
                 ELSE Append(resolved, seg))

\* segments[1:-1] = filter(None, segments[1:-1])
FilterMiddle(segments) ==
    IF Len(segments) <= 2 THEN segments
    ELSE <<Head(segments)>>
         \o SelectSeq(SubSeq(segments, 2, Len(segments) - 1), LAMBDA seg : Len(seg) > 0)
         \o <<segments[Len(segments)]>>

\* base_parts of urljoin: the base path's segments, without the last one
\* unless it is empty (the base path ends in "/").
BaseParts(bpath) ==
    LET parts == Split(bpath, "/")
    IN  IF Len(parts[Len(parts)]) > 0 THEN SubSeq(parts, 1, Len(parts) - 1) ELSE parts

\* segments of urljoin: an absolute path stands alone, a relative one
\* follows the base's.
Segments(bpath, path) ==
    IF Len(path) > 0 /\ path[1] = "/"
    THEN Split(path, "/")
    ELSE FilterMiddle(BaseParts(bpath) \o Split(path, "/"))

\* resolved_path of urljoin, joined: a trailing "." or ".." leaves a "/".
ResolvedPath(segments) ==
    LET resolved == IF segments[Len(segments)] \in { <<".">>, <<".", ".">> }
                    THEN Append(ResolveDots(segments, <<>>), <<>>)
                    ELSE ResolveDots(segments, <<>>)
    IN  IF Len(Join(resolved, "/")) = 0 THEN <<"/">> ELSE Join(resolved, "/")

\* urljoin(base, url) once both are parsed and known to be non-empty.
JoinParsed(b, r, rel) ==
    IF r.scheme # b.scheme \/ r.scheme \notin UsesRelative THEN rel
    ELSE IF r.scheme \in UsesNetloc /\ Len(r.netloc) > 0 THEN urlunsplit(r)
    ELSE IF Len(r.path) = 0
    THEN urlunsplit([ scheme   |-> r.scheme,
                      netloc   |-> IF r.scheme \in UsesNetloc THEN b.netloc ELSE r.netloc,
                      path     |-> b.path,
                      query    |-> IF Len(r.query) = 0 THEN b.query ELSE r.query,
                      fragment |-> r.fragment ])
    ELSE urlunsplit([ scheme   |-> r.scheme,
                      netloc   |-> IF r.scheme \in UsesNetloc THEN b.netloc ELSE r.netloc,
                      path     |-> ResolvedPath(Segments(b.path, r.path)),
                      query    |-> r.query,
                      fragment |-> r.fragment ])

\* urljoin(base, url). The model has no ";" in any URL, so params are empty.
urljoin(base, rel) ==
    IF Len(base) = 0 THEN rel
    ELSE IF Len(rel) = 0 THEN base
    ELSE JoinParsed(urlsplit(base, <<>>), urlsplit(rel, urlsplit(base, <<>>).scheme), rel)

----------------------------------------------------------------------------
(* OnlineContent: URL construction.                                        *)

ApiPackages == <<"a", "p", "i", "/", "p", "a", "c", "k", "a", "g", "e", "s">>

QueryPrefix == <<"?", "q", "=">>

\* make_url(*components)
make_url(base, components) ==
    urljoin(base, Join([ i \in 1..Len(components) |-> quote(components[i]) ], "/"))

\* search_url(query): the adjacent literals "api/packages" "?q=" are one
\* string, so make_url receives a single component.
search_url(base, query) == make_url(base, <<ApiPackages \o QueryPrefix \o query>>)

\* package_url(author, name)
package_url(base, author, name) == make_url(base, <<ApiPackages, author, name>>)

----------------------------------------------------------------------------
(* The inputs of the URL operations.                                       *)

\* The characters of a component or query: a letter, the path separator,
\* and the reserved "?", "#" and space.
Alphabet == { "a", "/", "?", "#", " " }

\* Every string over Alphabet of at most n characters.
StringsUpTo(n) == UNION { [ 1..m -> Alphabet ] : m \in 0..n }

\* The ways to cut s into k consecutive (possibly empty) pieces.
RECURSIVE Pieces(_, _)
Pieces(s, k) ==
    IF k = 1 THEN { <<s>> }
    ELSE UNION { { <<SubSeq(s, 1, i)>> \o rest : rest \in Pieces(DropFirst(s, i), k - 1) }
                 : i \in 0..Len(s) }

\* Lists with the dot segments "." and "..", which urljoin resolves.
DotLists ==
    { << <<".">> >>, << <<".", ".">> >>, << <<"a">>, <<".">> >>, << <<"a">>, <<".", ".">> >>,
      << <<".", ".">>, <<"a">> >>, << <<"a", "/", ".", ".">>, <<"a">> >> }

\* Every list of at most MaxComponents components holding at most MaxChars
\* characters in all, and the lists with dot segments.
ComponentLists ==
    { <<>> } \cup DotLists \cup
    UNION { UNION { Pieces(s, k) : s \in StringsUpTo(MaxChars) } : k \in 1..MaxComponents }

\* The (author, name) pairs package_url is called with.
Identities ==
    { <<a, n>> : a \in { <<"W">>, <<"a", "/">>, <<"?">>, <<>> },
                 n \in { <<"n">>, <<"#", " ">>, <<".", ".">>, <<>> } }

\* Base addresses: the default instance's shape (no path), a path with and
\* without a trailing slash, a query, a scheme urljoin does not resolve
\* against, and the empty string.
BaseAddresses ==
    { Https \o <<":", "/", "/", "h">>,
      Https \o <<":", "/", "/", "h", "/", "v">>,
      Https \o <<":", "/", "/", "h", "/", "v", "/">>,
      Https \o <<":", "/", "/", "h", "/", "v", "?", "k">>,
      <<"x", ":", "/", "/", "h">>,
      <<>> }

----------------------------------------------------------------------------
(* JSON documents and Python values.                                       *)
(*                                                                         *)
(* A document is the text anyjson.loads receives: either not JSON at all   *)
(* or the text of one JSON value.  A decoded value is tagged with its      *)
(* Python type: str (a character sequence), int, None, list, dict.         *)

PyStr(s) == [ t |-> "str", s |-> s ]
PyInt(n) == [ t |-> "int", n |-> n ]
PyNone == [ t |-> "None" ]
PyList(items) == [ t |-> "list", items |-> items ]
PyDict(fields) == [ t |-> "dict", fields |-> fields ]

NotJson == [ valid |-> FALSE ]
Json(v) == [ valid |-> TRUE, value |-> v ]

\* What a call returns or raises.
Ok(v) == [ kind |-> "ok", value |-> v ]
Raise(exception) == [ kind |-> exception ]

\* anyjson.loads(document)
loads(document) == IF document.valid THEN Ok(document.value) ELSE Raise("ValueError")

\* v[key] for a string key: only a dict can be subscripted by a string.
GetItem(v, key) ==
    IF v.t = "dict"
    THEN IF key \in DOMAIN v.fields THEN Ok(v.fields[key]) ELSE Raise("KeyError")
    ELSE Raise("TypeError")

\* The first key of keys (in order) that v[key] raises on, as that raise;
\* Ok(v) when every subscript succeeds.
RECURSIVE GetAll(_, _)
GetAll(v, keys) ==
    IF Len(keys) = 0 THEN Ok(v)
    ELSE IF GetItem(v, Head(keys)).kind # "ok" THEN GetItem(v, Head(keys))
    ELSE GetAll(v, Tail(keys))

RECURSIVE SetToSeq(_)
SetToSeq(S) ==
    IF S = {} THEN <<>>
    ELSE LET x == CHOOSE x \in S : TRUE IN <<x>> \o SetToSeq(S \ { x })

\* What "for x in v" visits: the elements of a list, the keys of a dict
\* (each a str, kept as one token), the characters of a str; an int or
\* None is not iterable.
Iterate(v) ==
    CASE v.t = "list" -> Ok(v.items)
      [] v.t = "dict" -> Ok([ i \in 1..Cardinality(DOMAIN v.fields) |->
                                 PyStr(<<SetToSeq(DOMAIN v.fields)[i]>>) ])
      [] v.t = "str" -> Ok([ i \in 1..Len(v.s) |-> PyStr(<<v.s[i]>>) ])
      [] OTHER -> Raise("TypeError")

\* A Python dict, in insertion order: a sequence of [key, value] entries.
DictHas(d, key) == \E i \in 1..Len(d) : d[i].key = key

DictGet(d, key) == d[CHOOSE i \in 1..Len(d) : d[i].key = key].value

\* A store that keeps the value an existing key already has.
DictSetKeepsFirst(d, key, value) ==
    IF DictHas(d, key) THEN d ELSE Append(d, [ key |-> key, value |-> value ])

\* A store that adds an entry whether or not the key exists.
DictSetAppends(d, key, value) == Append(d, [ key |-> key, value |-> value ])

\* d[key] = value: an existing key keeps its place and takes the new value.
DictSet(d, key, value) ==
    IF DictHas(d, key)
    THEN [ i \in 1..Len(d) |-> IF d[i].key = key THEN [ d[i] EXCEPT !.value = value ] ELSE d[i] ]
    ELSE Append(d, [ key |-> key, value |-> value ])

----------------------------------------------------------------------------
(* package.py: Package.parse.                                              *)

DigitValue ==
    [ c \in Digits |->
        CASE c = "0" -> 0 [] c = "1" -> 1 [] c = "2" -> 2 [] c = "3" -> 3
          [] c = "4" -> 4 [] c = "5" -> 5 [] c = "6" -> 6 [] c = "7" -> 7
          [] c = "8" -> 8 [] c = "9" -> 9 ]

RECURSIVE Number(_)
Number(s) ==
    IF Len(s) = 0 THEN 0
    ELSE 10 * Number(SubSeq(s, 1, Len(s) - 1)) + DigitValue[s[Len(s)]]

DaysInMonth(year, month) ==
    IF month = 2
    THEN IF year % 4 = 0 /\ (year % 100 # 0 \/ year % 400 = 0) THEN 29 ELSE 28
    ELSE IF month \in { 4, 6, 9, 11 } THEN 30 ELSE 31

\* datetime.datetime.fromisoformat(v), for the date-only form YYYY-MM-DD
\* (the only well-formed timestamps of the model): a str of that form
\* naming a real day becomes a datetime at midnight; any other str raises
\* ValueError, a value that is no str raises TypeError.
fromisoformat(v) ==
    IF v.t # "str" THEN Raise("TypeError")
    ELSE
    LET s == v.s
        shaped == /\ Len(s) = 10
                  /\ s[5] = "-" /\ s[8] = "-"
                  /\ \A i \in { 1, 2, 3, 4, 6, 7, 9, 10 } : s[i] \in Digits
        year == Number(SubSeq(s, 1, 4))
        month == Number(SubSeq(s, 6, 7))
        day == Number(SubSeq(s, 9, 10))
    IN  IF /\ shaped
           /\ year >= 1
           /\ month \in 1..12
           /\ day \in 1..DaysInMonth(year, month)
        THEN Ok([ t |-> "datetime", year |-> year, month |-> month, day |-> day ])
        ELSE Raise("ValueError")

\* The subscripts of the constructor call, in the order Python evaluates them.
PackageArguments ==
    << "name", "author", "title", "short_description", "long_description", "repo",
       "provides", "release", "score", "license", "maintainers",
       "website", "issue_tracker", "thumbnail", "screenshots" >>

\* Package.parse(document)
Package_parse(document) ==
    LET loaded == loads(document)
        fields == loaded.value
        created_at == fromisoformat(GetItem(fields, "created_at").value)
        f == fields.fields
    IN  IF loaded.kind # "ok" THEN loaded
        ELSE IF GetItem(fields, "created_at").kind # "ok" THEN GetItem(fields, "created_at")
        ELSE IF created_at.kind # "ok" THEN created_at
        ELSE IF GetAll(fields, PackageArguments).kind # "ok"
        THEN GetAll(fields, PackageArguments)
        ELSE Ok([ t                 |-> "Package",
                  name              |-> f["name"],
                  author            |-> f["author"],
                  title             |-> f["title"],
                  short_description |-> f["short_description"],
                  long_description  |-> f["long_description"],
                  repo              |-> f["repo"],
                  provides          |-> f["provides"],
                  release           |-> f["release"],
                  score             |-> f["score"],
                  license           |-> f["license"],
                  created_at        |-> created_at.value,
                  maintainers       |-> f["maintainers"],
                  website           |-> f["website"],
                  issue_tracker     |-> f["issue_tracker"],
                  thumbnail         |-> f["thumbnail"],
                  screenshots       |-> f["screenshots"] ])

----------------------------------------------------------------------------
(* api.py: SearchItem and Search.                                          *)

SearchItemArguments ==
    << "author", "name", "release", "short_description", "title",
       "package_type", "thumbnail" >>

\* SearchItem.parse(content_db, defs)
SearchItem_parse(content_db, defs) ==
    IF GetAll(defs, SearchItemArguments).kind # "ok"
    THEN GetAll(defs, SearchItemArguments)
    ELSE
    LET f == defs.fields
    IN  Ok([ t                 |-> "SearchItem",
             content_db        |-> content_db,
             author            |-> f["author"],
             name              |-> f["name"],
             release           |-> f["release"],
             short_description |-> f["short_description"],
             title             |-> f["title"],
             package_type      |-> f["package_type"],
             thumbnail         |-> f["thumbnail"] ])

\* A list or a dict cannot be (part of) a dict key.
Hashable(v) == v.t \notin { "list", "dict" }

\* items[mdef["author"], mdef["name"]] = SearchItem.parse(content_db, mdef):
\* Python evaluates the right-hand side, then the two subscripts of the key.
StoreItem(content_db, items, mdef) ==
    LET item == SearchItem_parse(content_db, mdef)
    IN  IF item.kind # "ok" THEN item
        ELSE IF GetItem(mdef, "author").kind # "ok" THEN GetItem(mdef, "author")
        ELSE IF GetItem(mdef, "name").kind # "ok" THEN GetItem(mdef, "name")
        ELSE IF ~Hashable(GetItem(mdef, "author").value) \/ ~Hashable(GetItem(mdef, "name").value)
        THEN Raise("TypeError")
        ELSE Ok(DictSet(items,
                        <<GetItem(mdef, "author").value, GetItem(mdef, "name").value>>,
                        item.value))

\* The loop of Search.parse over the decoded elements.
RECURSIVE StoreItems(_, _, _)
StoreItems(content_db, items, mdefs) ==
    IF Len(mdefs) = 0 THEN Ok(items)
    ELSE LET stored == StoreItem(content_db, items, Head(mdefs))
         IN  IF stored.kind # "ok" THEN stored
             ELSE StoreItems(content_db, stored.value, Tail(mdefs))

\* Search.parse(content_db, document)
Search_parse(content_db, document) ==
    LET loaded == loads(document)
        mdefs == Iterate(loaded.value)
        items == StoreItems(content_db, <<>>, mdefs.value)
    IN  IF loaded.kind # "ok" THEN loaded
        ELSE IF mdefs.kind # "ok" THEN mdefs
        ELSE IF items.kind # "ok" THEN items
        ELSE Ok([ t |-> "Search", content_dbdb |-> content_db, items |-> items.value ])

\* A find that matches on the author alone.
find_by_author(self, author, name) ==
    IF \E i \in 1..Len(self.items) : self.items[i].key[1] = author
    THEN self.items[CHOOSE i \in 1..Len(self.items) : self.items[i].key[1] = author].value
    ELSE PyNone

\* Search.find(author, name)
find(self, author, name) ==
    IF DictHas(self.items, <<author, name>>)
    THEN DictGet(self.items, <<author, name>>)
    ELSE PyNone

----------------------------------------------------------------------------
(* api.py: the two network calls.  requests.get either raises (no          *)
(* response arrived) or returns the response, whatever its status; the     *)
(* code reads response.text and never looks at the status.                 *)

NoResponse == [ received |-> FALSE ]
Response(status, text) == [ received |-> TRUE, status |-> status, text |-> text ]

\* OnlineContent.search(query), given what requests.get(search_url) did.
search(content_db, query, got) ==
    IF ~got.received THEN Raise("ConnectionError")
    ELSE Search_parse(content_db, got.text)

\* OnlineContent.fetch(author, name), given what requests.get(package_url) did.
fetch(content_db, author, name, got) ==
    IF ~got.received THEN Raise("ConnectionError")
    ELSE Package_parse(got.text)

----------------------------------------------------------------------------
(* The documents of the model.                                             *)

PackageRequired ==
    { "name", "author", "title", "short_description", "long_description", "repo",
      "provides", "release", "score", "license", "created_at", "maintainers" }

PackageOptional == { "website", "issue_tracker", "thumbnail", "screenshots" }

\* A well-formed Package document's value of field f.
GoodValue(f) ==
    CASE f = "name" -> PyStr(<<"n">>)
      [] f = "author" -> PyStr(<<"W">>)
      [] f = "provides" -> PyList(<<PyStr(<<"p">>)>>)
      [] f = "release" -> PyInt(7)
      [] f = "score" -> PyInt(3)
      [] f = "created_at" -> PyStr(<<"2", "0", "1", "8", "-", "0", "5", "-", "2", "5">>)
      [] f = "maintainers" -> PyList(<<PyStr(<<"W">>)>>)
      [] f = "screenshots" -> PyList(<<PyStr(<<"x">>)>>)
      [] OTHER -> PyStr(<<"s">>)

\* The field is not in the document.
Absent == [ t |-> "absent" ]

\* What a required field may hold instead: nothing, null, and for the
\* typed fields a value of the wrong type or form.
BadValues(f) ==
    { Absent, PyNone }
    \cup (IF f \in { "release", "score" } THEN { PyStr(<<"7">>) } ELSE {})
    \cup (IF f = "created_at"
          THEN { PyStr(<<"2", "0", "1", "8", "-", "1", "3", "-", "2", "5">>), PyStr(<<"x">>) }
          ELSE {})

AllBadValues == UNION { BadValues(f) : f \in PackageRequired }

\* Which required fields deviate, and how: at most MaxDeviations of them.
Deviations ==
    UNION { { bad \in [ D -> AllBadValues ] : \A f \in D : bad[f] \in BadValues(f) }
            : D \in { D \in SUBSET PackageRequired : Cardinality(D) <= MaxDeviations } }

\* Each optional field is present, null or absent.
OptionalChoices == [ PackageOptional -> { "present", "null", "absent" } ]

PackageObject(bad, opt) ==
    LET value(f) ==
            IF f \in DOMAIN bad THEN bad[f]
            ELSE IF f \in PackageRequired THEN GoodValue(f)
            ELSE CASE opt[f] = "present" -> GoodValue(f)
                   [] opt[f] = "null" -> PyNone
                   [] OTHER -> Absent
    IN  PyDict([ f \in { g \in PackageRequired \cup PackageOptional : value(g) # Absent }
                   |-> value(f) ])

\* Bodies that are no JSON object: not JSON, an array, a string, a number, null.
OtherDocuments ==
    { NotJson, Json(PyList(<<>>)), Json(PyStr(<<>>)), Json(PyStr(<<"a">>)),
      Json(PyInt(1)), Json(PyNone) }

PackageDocuments ==
    { Json(PackageObject(bad, opt)) : bad \in Deviations, opt \in OptionalChoices }
    \cup OtherDocuments

Authors == { PyStr(<<"W">>), PyStr(<<"a">>) }
Names == { PyStr(<<"n">>), PyStr(<<"m">>) }
Releases == { PyInt(1), PyInt(2) }
PackageTypes == { "game", "mod", "txp" }

\* One element of a search response.
SearchElement(author, name, release, package_type) ==
    PyDict([ f \in { "author", "name", "release", "short_description", "title",
                     "package_type", "thumbnail" } |->
               CASE f = "author" -> author
                 [] f = "name" -> name
                 [] f = "release" -> release
                 [] f = "package_type" -> PyStr(<<package_type>>)
                 [] OTHER -> PyStr(<<"s">>) ])

Without(element, field) ==
    PyDict([ f \in DOMAIN element.fields \ { field } |-> element.fields[f] ])

\* Well-formed elements, elements of a package type outside the
\* enumeration, elements lacking one field, and an element that is no object.
SearchElements ==
    { SearchElement(a, n, r, "mod") : a \in Authors, n \in Names, r \in Releases }
    \cup { SearchElement(PyStr(<<"W">>), PyStr(<<"n">>), PyInt(1), ty)
           : ty \in PackageTypes \cup { "skin" } }
    \cup { Without(SearchElement(PyStr(<<"W">>), PyStr(<<"n">>), PyInt(1), "mod"),
                   SearchItemArguments[i]) : i \in 1..Len(SearchItemArguments) }
    \cup { PyInt(1) }

SearchDocuments ==
    { Json(PyList(mdefs)) : mdefs \in UNION { [ 1..m -> SearchElements ] : m \in 0..MaxItems } }
    \cup { NotJson, Json(PyDict(<<>>)), Json(PyDict([ error |-> PyStr(<<"e">>) ])),
           Json(PyStr(<<>>)), Json(PyStr(<<"a">>)), Json(PyInt(1)), Json(PyNone) }

\* What requests.get may come back with: no response at all, or a response
\* of any status with any body.
Statuses == { 200, 404, 500 }

FetchBodies ==
    { Json(PackageObject(<<>>, [ f \in PackageOptional |-> "present" ])),
      Json(PackageObject(<<>>, [ f \in PackageOptional |-> "null" ])),
      Json(PyDict([ error |-> PyStr(<<"e">>) ])),
      Json(PyDict(<<>>)),
      NotJson }

SearchBodies ==
    { Json(PyList(<<SearchElement(PyStr(<<"W">>), PyStr(<<"n">>), PyInt(1), "mod")>>)),
      Json(PyList(<<>>)),
      Json(PyDict([ error |-> PyStr(<<"e">>) ])),
      Json(PyDict(<<>>)),
      NotJson }

Responses(bodies) ==
    { NoResponse } \cup { Response(st, text) : st \in Statuses, text \in bodies }

----------------------------------------------------------------------------
(* The state machine: Init draws one call, the action of the called        *)
(* operation runs it.                                                      *)

\* minetest_contentdb = OnlineContent("https://content.minetest.net")
minetest_contentdb ==
    [ base_address |->
        Https \o <<":", "/", "/">>
        \o <<"c", "o", "n", "t", "e", "n", "t", ".">>
        \o <<"m", "i", "n", "e", "t", "e", "s", "t", ".", "n", "e", "t">> ]

Pending == [ kind |-> "pending" ]
NotCalled == [ called |-> FALSE ]

Clients == { [ base_address |-> b ] : b \in BaseAddresses }

\* The call Init draws: a URL operation on a client of any base address,
\* or a parse or a network operation on the default instance.
Init ==
    /\ \/ /\ client \in Clients
          /\ \/ \E cs \in ComponentLists : call = [ op |-> "make_url", components |-> cs ]
             \/ \E q \in StringsUpTo(MaxChars) : call = [ op |-> "search_url", query |-> q ]
             \/ \E id \in Identities :
                   call = [ op |-> "package_url", author |-> id[1], name |-> id[2] ]
       \/ /\ client = minetest_contentdb
          /\ \/ \E d \in PackageDocuments : call = [ op |-> "Package.parse", document |-> d ]
             \/ \E d \in SearchDocuments : call = [ op |-> "Search.parse", document |-> d ]
             \/ \E q \in StringsUpTo(1) : call = [ op |-> "search", query |-> q ]
             \/ \E a \in Authors, n \in Names :
                   call = [ op |-> "fetch", author |-> a.s, name |-> n.s ]
    /\ done = FALSE
    /\ url = <<>>
    /\ response = NoResponse
    /\ outcome = Pending
    /\ found = NotCalled

CallMakeUrl ==
    /\ ~done /\ call.op = "make_url"
    /\ url' = make_url(client.base_address, call.components)
    /\ done' = TRUE
    /\ UNCHANGED <<client, call, response, outcome, found>>

CallSearchUrl ==
    /\ ~done /\ call.op = "search_url"
    /\ url' = search_url(client.base_address, call.query)
    /\ done' = TRUE
    /\ UNCHANGED <<client, call, response, outcome, found>>

CallPackageUrl ==
    /\ ~done /\ call.op = "package_url"
    /\ url' = package_url(client.base_address, call.author, call.name)
    /\ done' = TRUE
    /\ UNCHANGED <<client, call, response, outcome, found>>

CallPackageParse ==
    /\ ~done /\ call.op = "Package.parse"
    /\ outcome' = Package_parse(call.document)
    /\ done' = TRUE
    /\ UNCHANGED <<client, call, url, response, found>>

CallSearchParse ==
    /\ ~done /\ call.op = "Search.parse"
    /\ outcome' = Search_parse(client, call.document)
    /\ done' = TRUE
    /\ UNCHANGED <<client, call, url, response, found>>

\* search(query): the GET of search_url(query), answered by the network.
CallSearch ==
    /\ ~done /\ call.op = "search"
    /\ url' = search_url(client.base_address, call.query)
    /\ \E got \in Responses(SearchBodies) :
        /\ response' = got
        /\ outcome' = search(client, call.query, got)
    /\ done' = TRUE
    /\ UNCHANGED <<client, call, found>>

\* fetch(author, name): the GET of package_url(author, name).
CallFetch ==
    /\ ~done /\ call.op = "fetch"
    /\ url' = package_url(client.base_address, call.author, call.name)
    /\ \E got \in Responses(FetchBodies) :
        /\ response' = got
        /\ outcome' = fetch(client, call.author, call.name, got)
    /\ done' = TRUE
    /\ UNCHANGED <<client, call, found>>

\* The caller holds a Search (from Search.parse or search) and calls find.
HoldsSearch == done /\ call.op \in { "Search.parse", "search" } /\ outcome.kind = "ok"

CallFind ==
    /\ HoldsSearch
    /\ \E author \in Authors, name \in Names :
        found' = [ called |-> TRUE, author |-> author, name |-> name,
                   value |-> find(outcome.value, author, name) ]
    /\ UNCHANGED <<client, call, done, url, response, outcome>>

Next ==
    \/ CallMakeUrl
    \/ CallSearchUrl
    \/ CallPackageUrl
    \/ CallPackageParse
    \/ CallSearchParse
    \/ CallSearch
    \/ CallFetch
    \/ CallFind

Spec == Init /\ [][Next]_vars

----------------------------------------------------------------------------
(* Properties.                                                             *)

Returned(op) == done /\ call.op = op

Count(s, c) == Cardinality({ i \in 1..Len(s) : s[i] = c })

NoLeadingSlash(components) ==
    \A i \in 1..Len(components) : ~StartsWith(components[i], <<"/">>)

DefaultShapedBase == Https \o <<":", "/", "/", "h">>

\* C1: search_url(q) is the URL make_url builds from the two
\* components "api/packages" and "?q=" + q.
C1_SearchUrlIsTwoComponents ==
    Returned("search_url") =>
        url = make_url(client.base_address, <<ApiPackages, QueryPrefix \o call.query>>)

\* C2, as claimed: with no component beginning with "/", make_url gives the
\* URL in which every "/", "?", "#" and space of a component is escaped,
\* that is, the join of the components each encoded with no safe character.
C2_EveryReservedCharacterEscaped ==
    (Returned("make_url") /\ NoLeadingSlash(call.components)) =>
        url = urljoin(client.base_address,
                      Join([ i \in 1..Len(call.components) |->
                               quote_with_safe(call.components[i], {}) ], "/"))

\* C2, amended: with no component beginning with "/", no "?", "#" or space
\* of a component reaches the URL unescaped (the URL holds no more of them
\* than the base address does), and unless the URL is the base address
\* itself it has no query and no fragment part; "/" is left as it is.
C2_QueryFragmentSpaceEscaped ==
    (Returned("make_url") /\ NoLeadingSlash(call.components)) =>
        /\ \A c \in { "?", "#", " " } : Count(url, c) <= Count(client.base_address, c)
        /\ url # client.base_address =>
              /\ urlsplit(url, <<>>).query = <<>>
              /\ urlsplit(url, <<>>).fragment = <<>>

C2_Witness ==
    /\ Returned("make_url")
    /\ client.base_address = DefaultShapedBase
    /\ call.components = << <<"a", "?">>, <<"#">> >>
    /\ url = DefaultShapedBase \o <<"/", "a", "%", "3", "F", "/", "%", "2", "3">>

\* The exceptions that say the request failed, and those that say the
\* body could not be decoded into the expected record.
TransportKinds == { "ConnectionError" }
DecodeKinds == { "ValueError", "KeyError", "TypeError" }

\* C3: a response of a non-2xx status makes fetch and search fail with a
\* transport error, whatever its body.
C3_NonSuccessStatusIsTransportError ==
    ( /\ Returned("fetch") \/ Returned("search")
      /\ response.received
      /\ response.status \notin 200..299 ) =>
        outcome.kind \in TransportKinds

IsObject(document) == document.valid /\ document.value.t = "dict"

Has(document, f) == f \in DOMAIN document.value.fields

Field(document, f) == document.value.fields[f]

RequiredWellFormed(document) ==
    \A f \in PackageRequired : Has(document, f) /\ Field(document, f) = GoodValue(f)

\* C4: Package.parse succeeds on an object with the twelve required fields
\* well-formed and every optional field absent or null, and the record
\* reports those optional fields as absent (None).
C4_OptionalFieldsMayBeAbsentOrNull ==
    ( /\ Returned("Package.parse")
      /\ IsObject(call.document)
      /\ RequiredWellFormed(call.document)
      /\ \A f \in PackageOptional :
            Has(call.document, f) => Field(call.document, f) = PyNone ) =>
        /\ outcome.kind = "ok"
        /\ \A f \in PackageOptional : outcome.value[f] = PyNone

\* C5: Package.parse fails with a decode error when a required field is
\* missing, release or score is no integer, or created_at is no valid
\* ISO-8601 string.
C5_MalformedRequiredFieldIsDecodeError ==
    ( /\ Returned("Package.parse")
      /\ IsObject(call.document)
      /\ \/ \E f \in PackageRequired : ~Has(call.document, f)
         \/ \E f \in { "release", "score" } :
               Has(call.document, f) /\ Field(call.document, f).t # "int"
         \/ /\ Has(call.document, "created_at")
            /\ fromisoformat(Field(call.document, "created_at")).kind # "ok" ) =>
        outcome.kind \in DecodeKinds

\* C6: Search.parse fails with a decode error when the document is not
\* JSON, is JSON but no array, or is an array with an element lacking one
\* of the seven fields.
C6_MalformedSearchDocumentIsDecodeError ==
    ( /\ Returned("Search.parse")
      /\ \/ ~call.document.valid
         \/ call.document.value.t # "list"
         \/ \E i \in 1..Len(call.document.value.items) :
               GetAll(call.document.value.items[i], SearchItemArguments).kind # "ok" ) =>
        outcome.kind \in DecodeKinds

\* The elements of an array document, when every one of them is an object
\* with the seven fields.
WellFormedArray(document) ==
    /\ document.valid
    /\ document.value.t = "list"
    /\ \A i \in 1..Len(document.value.items) :
          GetAll(document.value.items[i], SearchItemArguments).kind = "ok"

KeyOf(mdef) == <<mdef.fields["author"], mdef.fields["name"]>>

\* C7: on an array of well-formed elements Search.parse raises nothing, and
\* for every (author, name) pair of the array the result holds exactly one
\* item, with the fields of the last element of that pair.
C7_LastElementWins ==
    (Returned("Search.parse") /\ WellFormedArray(call.document)) =>
        /\ outcome.kind = "ok"
        /\ LET mdefs == call.document.value.items
               items == outcome.value.items
           IN  \A i \in 1..Len(mdefs) :
                  (\A j \in (i + 1)..Len(mdefs) : KeyOf(mdefs[j]) # KeyOf(mdefs[i])) =>
                     /\ Cardinality({ k \in 1..Len(items) : items[k].key = KeyOf(mdefs[i]) }) = 1
                     /\ \A k \in 1..Len(items) :
                           items[k].key = KeyOf(mdefs[i]) =>
                              \A n \in 1..Len(SearchItemArguments) :
                                 items[k].value[SearchItemArguments[n]]
                                    = mdefs[i].fields[SearchItemArguments[n]]

C7_Witness ==
    /\ Returned("Search.parse")
    /\ WellFormedArray(call.document)
    /\ Len(call.document.value.items) = 2
    /\ KeyOf(call.document.value.items[1]) = KeyOf(call.document.value.items[2])
    /\ call.document.value.items[1].fields["release"] = PyInt(1)
    /\ call.document.value.items[2].fields["release"] = PyInt(2)
    /\ outcome.kind = "ok"
    /\ Len(outcome.value.items) = 1
    /\ outcome.value.items[1].value.release = PyInt(2)

\* C8: a find step leaves the Search as it was and answers with the item
\* stored under (author, name), or None when no item is.
C8_FindIsPureLookup ==
    [][ found' # found =>
          /\ found'.called
          /\ outcome' = outcome
          /\ LET items == outcome.value.items
                 key == <<found'.author, found'.name>>
                 at == { i \in 1..Len(items) : items[i].key = key }
             IN  IF at = {} THEN found'.value = PyNone
                 ELSE \A i \in at : found'.value = items[i].value ]_vars

\* A find that returned the one item of a Search.
C8_Witness ==
    /\ found.called
    /\ found.value # PyNone
    /\ Len(outcome.value.items) = 1
    /\ found.value = outcome.value.items[1].value

\* C9: every item of a Search that Search.parse returned has a package
\* type of the enumeration.
C9_PackageTypeIsEnumerated ==
    (Returned("Search.parse") /\ outcome.kind = "ok") =>
        \A i \in 1..Len(outcome.value.items) :
            \E ty \in PackageTypes : outcome.value.items[i].value.package_type = PyStr(<<ty>>)

\* C10: in a Search that Search.parse returned every item sits under the
\* key of its own (author, name), no two items share a key, and there are
\* as many items as distinct (author, name) pairs in the input array.
C10_ItemsKeyedByOwnIdentity ==
    (Returned("Search.parse") /\ outcome.kind = "ok") =>
        LET items == outcome.value.items
        IN  /\ \A i \in 1..Len(items) :
                  items[i].key = <<items[i].value.author, items[i].value.name>>
            /\ \A i, j \in 1..Len(items) : items[i].key = items[j].key => i = j
            /\ call.document.value.t = "list" =>
                  Len(items) = Cardinality({ KeyOf(call.document.value.items[n])
                                             : n \in 1..Len(call.document.value.items) })

C10_Witness ==
    /\ Returned("Search.parse")
    /\ WellFormedArray(call.document)
    /\ outcome.kind = "ok"
    /\ Len(call.document.value.items) = 2
    /\ Len(outcome.value.items) = 2

====
